---- MODULE Spec2Model ----
(***************************************************************************)
(* itemp: a temperature kept in one unsigned 16-bit integer, with integer  *)
(* conversions to and from Fahrenheit and Celsius (src/itemp.c, and the    *)
(* header itemp.h reproduced in src/README.md).                            *)
(*                                                                         *)
(* C arithmetic is modelled for the build the source documents             *)
(* (src/itemp.c:135-136, cc on a unix-like system): int is 32 bits wide,   *)
(* a conversion to uint16_t reduces modulo 2^16, a conversion to int16_t   *)
(* wraps to the two's-complement value, and / truncates toward zero.       *)
(* A float is modelled as the exact rational it stands for, <<num, den>>   *)
(* with den > 0.                                                           *)
(***************************************************************************)
EXTENDS Integers, Sequences, FiniteSets, TLC

VARIABLES
  calls,    \* the library functions called so far, oldest first
  arg,      \* the caller's input to the first call (first argument)
  arg2,     \* second argument, for rquo(x, y)
  itemp,    \* the caller's itemp_t slot
  res,      \* the int16_t returned by the last integer decode, or by rquo
  fres,     \* the float returned by the last float decode, as <<num, den>>
  unit,     \* the unit the caller adjusts in, "F" or "C" ("-" when unused)
  nominal,  \* hundredths the caller expects: first decode plus the deltas
  inRange,  \* FALSE once an adjustment left 0..65535 and wrapped
  pc,       \* position in the unit test's adjust-and-convert scenario
  f100,     \* itemp_to_fahrenheit_100(itemp) as last read by the scenario
  c100      \* itemp_to_celsius_100(itemp) as last read by the scenario

vars == <<calls, arg, arg2, itemp, res, fres, unit, nominal, inRange, pc, f100, c100>>

----------------------------------------------------------------------------
(* Fixed-width integers                                                    *)

UINT16_MAX == 65535
INT16_MIN == -32768
INT16_MAX == 32767

ITEMP == 0..UINT16_MAX
INT16 == INT16_MIN..INT16_MAX

\* conversion of an int to uint16_t (itemp_t)
ToUint16(n) == n % (UINT16_MAX + 1)

\* conversion of an int to int16_t
ToInt16(n) ==
  LET u == n % (UINT16_MAX + 1)
  IN  IF u > INT16_MAX THEN u - (UINT16_MAX + 1) ELSE u

Abs(n) == IF n < 0 THEN -n ELSE n

\* C's integer division: the quotient truncated toward zero
CDiv(a, b) ==
  LET q == Abs(a) \div Abs(b)
  IN  IF (a < 0) = (b < 0) THEN q ELSE -q

----------------------------------------------------------------------------
(* Constants of the transform and the caller's unit steps                  *)

F_100_OFFSET == 1552
C_100_OFFSET == 2640
F_100_SLOPE == 5
C_100_SLOPE == 9

ITEMP_ONE_DEGREE_F == 500
ITEMP_ONE_TENTH_DEGREE_F == 50
ITEMP_ONE_HUNDRETH_DEGREE_F == 5
ITEMP_ONE_DEGREE_C == 900
ITEMP_ONE_TENTH_DEGREE_C == 90
ITEMP_ONE_HUNDRETH_DEGREE_C == 9

----------------------------------------------------------------------------
(* rquo: x/y rounded to the nearest integer                                *)

\* (x ^ y) >= 0: the sign bits of x and y are equal
SameSign(x, y) == (x < 0) = (y < 0)

\* a plausible slip: the parameters declared int16_t instead of int32_t
rquo_narrow(x, y) ==
  LET a == ToInt16(x)
      b == ToInt16(y)
  IN  IF SameSign(a, b)
        THEN ToInt16(CDiv(a + CDiv(b, 2), b))
        ELSE ToInt16(CDiv(a - CDiv(b, 2), b))

\* a plausible slip: plain truncating division, no rounding term
rquo_trunc(x, y) == ToInt16(CDiv(x, y))

\* a plausible slip: the half is always added, whatever the signs
rquo_nosign(x, y) == ToInt16(CDiv(x + CDiv(y, 2), y))

rquo(x, y) ==
  IF SameSign(x, y)
    THEN ToInt16(CDiv(x + CDiv(y, 2), y))
    ELSE ToInt16(CDiv(x - CDiv(y, 2), y))

----------------------------------------------------------------------------
(* Encoders                                                                *)

\* a plausible slip: the offset added after the multiplication
fahrenheit_100_to_itemp_late(fahrenheit_100) ==
  ToUint16(fahrenheit_100 * F_100_SLOPE + F_100_OFFSET)

fahrenheit_100_to_itemp(fahrenheit_100) ==
  ToUint16((fahrenheit_100 + F_100_OFFSET) * F_100_SLOPE)

\* conversion to int16_t that saturates instead of wrapping
ClampInt16(n) ==
  IF n > INT16_MAX THEN INT16_MAX ELSE IF n < INT16_MIN THEN INT16_MIN ELSE n

\* a plausible slip: the whole degrees scaled by 10 instead of 100
fahrenheit_1_to_itemp_x10(fahrenheit_1) ==
  fahrenheit_100_to_itemp(ToInt16(fahrenheit_1 * 10))

\* a plausible slip: the hundredths saturate at the int16_t limits
fahrenheit_1_to_itemp_sat(fahrenheit_1) ==
  fahrenheit_100_to_itemp(ClampInt16(fahrenheit_1 * 100))

fahrenheit_10_to_itemp(fahrenheit_10) ==
  fahrenheit_100_to_itemp(ToInt16(fahrenheit_10 * 10))

fahrenheit_1_to_itemp(fahrenheit_1) ==
  fahrenheit_100_to_itemp(ToInt16(fahrenheit_1 * 100))

\* a plausible slip: the result saturates at the itemp_t limits
celsius_100_to_itemp_sat(celsius_100) ==
  LET p == (celsius_100 + C_100_OFFSET) * C_100_SLOPE
  IN  IF p > UINT16_MAX THEN UINT16_MAX ELSE IF p < 0 THEN 0 ELSE p

celsius_100_to_itemp(celsius_100) ==
  ToUint16((celsius_100 + C_100_OFFSET) * C_100_SLOPE)

celsius_10_to_itemp(celsius_10) ==
  celsius_100_to_itemp(ToInt16(celsius_10 * 10))

celsius_1_to_itemp(celsius_1) ==
  celsius_100_to_itemp(ToInt16(celsius_1 * 100))

----------------------------------------------------------------------------
(* Decoders                                                                *)

itemp_to_fahrenheit_100(e) == ToInt16(rquo(e, F_100_SLOPE) - F_100_OFFSET)

\* a plausible slip: the tenths rounded from the encoded value in one step
itemp_to_fahrenheit_10_direct(e) ==
  rquo(e - F_100_OFFSET * F_100_SLOPE, F_100_SLOPE * 10)

itemp_to_fahrenheit_10(e) == rquo(itemp_to_fahrenheit_100(e), 10)

itemp_to_fahrenheit_1(e) == rquo(itemp_to_fahrenheit_100(e), 100)

itemp_to_celsius_100(e) == ToInt16(rquo(e, C_100_SLOPE) - C_100_OFFSET)

itemp_to_celsius_10(e) == rquo(itemp_to_celsius_100(e), 10)

itemp_to_celsius_1(e) == rquo(itemp_to_celsius_100(e), 100)

\* rationals <<num, den>>, den > 0
RatDivInt(q, k) == <<q[1], q[2] * k>>
RatSubInt(q, k) == <<q[1] - k * q[2], q[2]>>

\* ((itemp / (float)F_100_SLOPE) - F_100_OFFSET) / 100.0
itemp_to_fahrenheit(e) ==
  RatDivInt(RatSubInt(<<e, F_100_SLOPE>>, F_100_OFFSET), 100)

\* ((itemp / (float)C_100_SLOPE) - C_100_OFFSET) / 100.0
itemp_to_celsius(e) ==
  RatDivInt(RatSubInt(<<e, C_100_SLOPE>>, C_100_OFFSET), 100)

----------------------------------------------------------------------------
(* Spec: a caller encodes any int16_t with an integer encoder, then        *)
(* decodes the slot with an integer decoder                                *)

Idle ==
  /\ arg2 = 0
  /\ res = 0
  /\ fres = <<0, 1>>
  /\ unit = "-"
  /\ nominal = 0
  /\ inRange = TRUE
  /\ pc = "-"
  /\ f100 = 0
  /\ c100 = 0

Init ==
  /\ calls = <<>>
  /\ arg = 0
  /\ itemp = 0
  /\ Idle

Call_fahrenheit_1_to_itemp ==
  /\ calls = <<>>
  /\ \E v \in INT16 :
       /\ arg' = v
       /\ itemp' = fahrenheit_1_to_itemp(v)
  /\ calls' = <<"fahrenheit_1_to_itemp">>
  /\ UNCHANGED <<arg2, res, fres, unit, nominal, inRange, pc, f100, c100>>

Call_fahrenheit_10_to_itemp ==
  /\ calls = <<>>
  /\ \E v \in INT16 :
       /\ arg' = v
       /\ itemp' = fahrenheit_10_to_itemp(v)
  /\ calls' = <<"fahrenheit_10_to_itemp">>
  /\ UNCHANGED <<arg2, res, fres, unit, nominal, inRange, pc, f100, c100>>

Call_fahrenheit_100_to_itemp ==
  /\ calls = <<>>
  /\ \E v \in INT16 :
       /\ arg' = v
       /\ itemp' = fahrenheit_100_to_itemp(v)
  /\ calls' = <<"fahrenheit_100_to_itemp">>
  /\ UNCHANGED <<arg2, res, fres, unit, nominal, inRange, pc, f100, c100>>

Call_celsius_1_to_itemp ==
  /\ calls = <<>>
  /\ \E v \in INT16 :
       /\ arg' = v
       /\ itemp' = celsius_1_to_itemp(v)
  /\ calls' = <<"celsius_1_to_itemp">>
  /\ UNCHANGED <<arg2, res, fres, unit, nominal, inRange, pc, f100, c100>>

Call_celsius_10_to_itemp ==
  /\ calls = <<>>
  /\ \E v \in INT16 :
       /\ arg' = v
       /\ itemp' = celsius_10_to_itemp(v)
  /\ calls' = <<"celsius_10_to_itemp">>
  /\ UNCHANGED <<arg2, res, fres, unit, nominal, inRange, pc, f100, c100>>

Call_celsius_100_to_itemp ==
  /\ calls = <<>>
  /\ \E v \in INT16 :
       /\ arg' = v
       /\ itemp' = celsius_100_to_itemp(v)
  /\ calls' = <<"celsius_100_to_itemp">>
  /\ UNCHANGED <<arg2, res, fres, unit, nominal, inRange, pc, f100, c100>>

\* a decoder reads the slot once it holds a value
Call_itemp_to_fahrenheit_1 ==
  /\ Len(calls) = 1
  /\ res' = itemp_to_fahrenheit_1(itemp)
  /\ calls' = Append(calls, "itemp_to_fahrenheit_1")
  /\ UNCHANGED <<arg, arg2, itemp, fres, unit, nominal, inRange, pc, f100, c100>>

Call_itemp_to_fahrenheit_10 ==
  /\ Len(calls) = 1
  /\ res' = itemp_to_fahrenheit_10(itemp)
  /\ calls' = Append(calls, "itemp_to_fahrenheit_10")
  /\ UNCHANGED <<arg, arg2, itemp, fres, unit, nominal, inRange, pc, f100, c100>>

Call_itemp_to_fahrenheit_100 ==
  /\ Len(calls) = 1
  /\ res' = itemp_to_fahrenheit_100(itemp)
  /\ calls' = Append(calls, "itemp_to_fahrenheit_100")
  /\ UNCHANGED <<arg, arg2, itemp, fres, unit, nominal, inRange, pc, f100, c100>>

Call_itemp_to_celsius_1 ==
  /\ Len(calls) = 1
  /\ res' = itemp_to_celsius_1(itemp)
  /\ calls' = Append(calls, "itemp_to_celsius_1")
  /\ UNCHANGED <<arg, arg2, itemp, fres, unit, nominal, inRange, pc, f100, c100>>

Call_itemp_to_celsius_10 ==
  /\ Len(calls) = 1
  /\ res' = itemp_to_celsius_10(itemp)
  /\ calls' = Append(calls, "itemp_to_celsius_10")
  /\ UNCHANGED <<arg, arg2, itemp, fres, unit, nominal, inRange, pc, f100, c100>>

Call_itemp_to_celsius_100 ==
  /\ Len(calls) = 1
  /\ res' = itemp_to_celsius_100(itemp)
  /\ calls' = Append(calls, "itemp_to_celsius_100")
  /\ UNCHANGED <<arg, arg2, itemp, fres, unit, nominal, inRange, pc, f100, c100>>

Next ==
  \/ Call_fahrenheit_1_to_itemp
  \/ Call_fahrenheit_10_to_itemp
  \/ Call_fahrenheit_100_to_itemp
  \/ Call_celsius_1_to_itemp
  \/ Call_celsius_10_to_itemp
  \/ Call_celsius_100_to_itemp
  \/ Call_itemp_to_fahrenheit_1
  \/ Call_itemp_to_fahrenheit_10
  \/ Call_itemp_to_fahrenheit_100
  \/ Call_itemp_to_celsius_1
  \/ Call_itemp_to_celsius_10
  \/ Call_itemp_to_celsius_100

Spec == Init /\ [][Next]_vars

----------------------------------------------------------------------------
(* SpecDecode: the slot holds any 16-bit value (stored, received or        *)
(* adjusted by the caller), and one decoder reads it                       *)

InitDecode ==
  /\ calls = <<"load">>
  /\ itemp \in ITEMP
  /\ arg = itemp
  /\ Idle

Call_itemp_to_fahrenheit ==
  /\ Len(calls) = 1
  /\ fres' = itemp_to_fahrenheit(itemp)
  /\ calls' = Append(calls, "itemp_to_fahrenheit")
  /\ UNCHANGED <<arg, arg2, itemp, res, unit, nominal, inRange, pc, f100, c100>>

Call_itemp_to_celsius ==
  /\ Len(calls) = 1
  /\ fres' = itemp_to_celsius(itemp)
  /\ calls' = Append(calls, "itemp_to_celsius")
  /\ UNCHANGED <<arg, arg2, itemp, res, unit, nominal, inRange, pc, f100, c100>>

NextDecode ==
  \/ Call_itemp_to_fahrenheit_1
  \/ Call_itemp_to_fahrenheit_10
  \/ Call_itemp_to_fahrenheit_100
  \/ Call_itemp_to_celsius_1
  \/ Call_itemp_to_celsius_10
  \/ Call_itemp_to_celsius_100
  \/ Call_itemp_to_fahrenheit
  \/ Call_itemp_to_celsius

SpecDecode == InitDecode /\ [][NextDecode]_vars

----------------------------------------------------------------------------
(* SpecRquo: rquo applied to any pair of a bounded set of integers         *)

MaxX == 60
MaxY == 12

InitRquo ==
  /\ calls = <<>>
  /\ arg = 0
  /\ itemp = 0
  /\ Idle

Call_rquo ==
  /\ calls = <<>>
  /\ \E x \in -MaxX..MaxX, y \in (-MaxY..MaxY) \ {0} :
       /\ arg' = x
       /\ arg2' = y
       /\ res' = rquo(x, y)
  /\ calls' = <<"rquo">>
  /\ UNCHANGED <<itemp, fres, unit, nominal, inRange, pc, f100, c100>>

NextRquo == Call_rquo

SpecRquo == InitRquo /\ [][NextRquo]_vars

----------------------------------------------------------------------------
(* SpecAdjust: the caller reads the slot in one unit, then adds and        *)
(* subtracts that unit's step constants in place, reading after each       *)

\* each step constant with the hundredths of a degree its name stands for
StepsOf(u) ==
  IF u = "F"
    THEN { <<ITEMP_ONE_DEGREE_F, 100>>,
           <<ITEMP_ONE_TENTH_DEGREE_F, 10>>,
           <<ITEMP_ONE_HUNDRETH_DEGREE_F, 1>> }
    ELSE { <<ITEMP_ONE_DEGREE_C, 100>>,
           <<ITEMP_ONE_TENTH_DEGREE_C, 10>>,
           <<ITEMP_ONE_HUNDRETH_DEGREE_C, 1>> }

\* the hundredths decoder of a unit
Decode100(u, e) ==
  IF u = "F" THEN itemp_to_fahrenheit_100(e) ELSE itemp_to_celsius_100(e)

InitAdjust ==
  /\ calls = <<>>
  /\ itemp \in ITEMP
  /\ arg = 0
  /\ arg2 = 0
  /\ unit \in {"F", "C"}
  /\ res = Decode100(unit, itemp)
  /\ nominal = res
  /\ inRange = TRUE
  /\ pc = "read"
  /\ fres = <<0, 1>>
  /\ f100 = 0
  /\ c100 = 0

\* itemp += step, and the hundredths reading of the adjusted slot
AddStep ==
  /\ inRange
  /\ \E s \in StepsOf(unit) :
       /\ itemp' = ToUint16(itemp + s[1])
       /\ nominal' = nominal + s[2]
       /\ inRange' = (itemp + s[1] <= UINT16_MAX)
  /\ res' = Decode100(unit, itemp')
  /\ pc' = "added"
  /\ UNCHANGED <<calls, arg, arg2, fres, unit, f100, c100>>

\* itemp -= step, and the hundredths reading of the adjusted slot
SubStep ==
  /\ inRange
  /\ \E s \in StepsOf(unit) :
       /\ itemp' = ToUint16(itemp - s[1])
       /\ nominal' = nominal - s[2]
       /\ inRange' = (itemp - s[1] >= 0)
  /\ res' = Decode100(unit, itemp')
  /\ pc' = "subtracted"
  /\ UNCHANGED <<calls, arg, arg2, fres, unit, f100, c100>>

NextAdjust ==
  \/ AddStep
  \/ SubStep

SpecAdjust == InitAdjust /\ [][NextAdjust]_vars

----------------------------------------------------------------------------
(* SpecScenario: the unit test's "Adjusting and converting itemp", from    *)
(* any whole-degree Fahrenheit start                                       *)

MaxStartDegree == 110

InitScenario ==
  /\ calls = <<>>
  /\ arg \in 0..MaxStartDegree
  /\ arg2 = 0
  /\ itemp = 0
  /\ res = 0
  /\ fres = <<0, 1>>
  /\ unit = "-"
  /\ nominal = 0
  /\ inRange = TRUE
  /\ pc = "L460"
  /\ f100 = 0
  /\ c100 = 0

\* itemp = fahrenheit_1_to_itemp(70), and the Fahrenheit reading
L460 ==
  /\ pc = "L460"
  /\ itemp' = fahrenheit_1_to_itemp(arg)
  /\ f100' = itemp_to_fahrenheit_100(itemp')
  /\ pc' = "L463"
  /\ UNCHANGED <<calls, arg, arg2, res, fres, unit, nominal, inRange, c100>>

\* itemp -= 2 * ITEMP_ONE_DEGREE_F, and the two readings
L463 ==
  /\ pc = "L463"
  /\ itemp' = ToUint16(itemp - 2 * ITEMP_ONE_DEGREE_F)
  /\ f100' = itemp_to_fahrenheit_100(itemp')
  /\ c100' = itemp_to_celsius_100(itemp')
  /\ pc' = "L467"
  /\ UNCHANGED <<calls, arg, arg2, res, fres, unit, nominal, inRange>>

\* itemp += 18 * ITEMP_ONE_HUNDRETH_DEGREE_F, and the two readings
L467 ==
  /\ pc = "L467"
  /\ itemp' = ToUint16(itemp + 18 * ITEMP_ONE_HUNDRETH_DEGREE_F)
  /\ f100' = itemp_to_fahrenheit_100(itemp')
  /\ c100' = itemp_to_celsius_100(itemp')
  /\ pc' = "L471"
  /\ UNCHANGED <<calls, arg, arg2, res, fres, unit, nominal, inRange>>

\* itemp -= 10 * ITEMP_ONE_HUNDRETH_DEGREE_C, and the two readings
L471 ==
  /\ pc = "L471"
  /\ itemp' = ToUint16(itemp - 10 * ITEMP_ONE_HUNDRETH_DEGREE_C)
  /\ f100' = itemp_to_fahrenheit_100(itemp')
  /\ c100' = itemp_to_celsius_100(itemp')
  /\ pc' = "done"
  /\ UNCHANGED <<calls, arg, arg2, res, fres, unit, nominal, inRange>>

NextScenario ==
  \/ L460
  \/ L463
  \/ L467
  \/ L471

SpecScenario == InitScenario /\ [][NextScenario]_vars

----------------------------------------------------------------------------
(* Properties                                                              *)

\* the call made last, "" before any
LastCall == IF Len(calls) = 0 THEN "" ELSE calls[Len(calls)]

\* p < q, for rationals
RatLess(p, q) == p[1] * q[2] < q[1] * p[2]

\* |scale * q - r| < 1/2, for a rational q and integers scale, r
WithinHalf(q, scale, r) == 2 * Abs(scale * q[1] - r * q[2]) < q[2]

\* |scale * q - r| <= n/d, for a rational q and integers scale, r, n, d
WithinTol(q, scale, r, n, d) == d * Abs(scale * q[1] - r * q[2]) <= n * q[2]

\* C1: a hundredths value inside the documented range, encoded and then
\* decoded in the same unit, comes back unchanged: Fahrenheit on
\* [-1552, 11555], Celsius on [-2640, 4641].
C1_RoundTripExact ==
  /\ ( /\ calls = <<"fahrenheit_100_to_itemp", "itemp_to_fahrenheit_100">>
       /\ arg \in -1552..11555 ) => res = arg
  /\ ( /\ calls = <<"celsius_100_to_itemp", "itemp_to_celsius_100">>
       /\ arg \in -2640..4641 ) => res = arg

C1_Witness ==
  /\ calls = <<"celsius_100_to_itemp", "itemp_to_celsius_100">>
  /\ arg = 4641
  /\ itemp = 65529
  /\ res = 4641

\* C2: after any sequence of additions and subtractions of one unit's step
\* constants that stay within 0..65535, from any encoded value, the
\* hundredths reading of that unit is the first reading plus the sum of
\* the nominal deltas (1, 10 or 100 hundredths per step).
C2_StepsExact == (pc # "read" /\ inRange) => res = nominal

C2_Witness ==
  /\ unit = "C"
  /\ pc = "subtracted"
  /\ inRange
  /\ itemp = 4
  /\ nominal = -2640
  /\ res = -2640

C4_HundredthsNearest ==
  /\ LastCall = "itemp_to_fahrenheit_100" =>
       WithinHalf(itemp_to_fahrenheit(itemp), 100, res)
  /\ LastCall = "itemp_to_celsius_100" =>
       WithinHalf(itemp_to_celsius(itemp), 100, res)

\* itemp 65533 is exactly 11554.6 hundredths F: the decode is 11555
C4_Witness ==
  /\ LastCall = "itemp_to_fahrenheit_100"
  /\ itemp = 65533
  /\ res = 11555

C6_CelsiusMaxIs4641 ==
  (LastCall = "itemp_to_celsius_100" /\ itemp = 65535) => res = 4641

\* C6 amended: itemp_to_celsius_100(65535) returns 4642.
C6_CelsiusMaxIs4642 ==
  (LastCall = "itemp_to_celsius_100" /\ itemp = 65535) => res = 4642

C6_Witness ==
  /\ calls = <<"fahrenheit_100_to_itemp", "itemp_to_celsius_100">>
  /\ arg = 11555
  /\ itemp = 65535
  /\ res = 4642

\* C7: rquo(x, y) is an integer nearest to x/y, and when x/y is half-way
\* between two integers it is the one farther from zero, whatever the
\* signs of x and y.
C7_RoundHalfAway ==
  LastCall = "rquo" =>
    /\ 2 * Abs(res * arg2 - arg) <= Abs(arg2)
    /\ 2 * Abs(res * arg2 - arg) = Abs(arg2) =>
         Abs(res) * Abs(arg2) > Abs(arg)

C7_Witness ==
  /\ LastCall = "rquo"
  /\ arg = 3
  /\ arg2 = -2
  /\ res = -2

\* C8: the literal boundary values of the hundredths conversions.
C8_Boundaries ==
  /\ (LastCall = "itemp_to_fahrenheit_100" /\ itemp = 0) => res = -1552
  /\ (LastCall = "itemp_to_fahrenheit_100" /\ itemp = 65535) => res = 11555
  /\ (LastCall = "fahrenheit_100_to_itemp" /\ arg = -1552) => itemp = 0
  /\ (LastCall = "fahrenheit_100_to_itemp" /\ arg = 0) => itemp = 7760
  /\ (LastCall = "fahrenheit_100_to_itemp" /\ arg = 11555) => itemp = 65535
  /\ (LastCall = "itemp_to_celsius_100" /\ itemp = 0) => res = -2640
  /\ (LastCall = "itemp_to_celsius_100" /\ itemp = 23760) => res = 0
  /\ (LastCall = "celsius_100_to_itemp" /\ arg = -2640) => itemp = 0

C8_Witness ==
  /\ calls = <<"fahrenheit_100_to_itemp", "itemp_to_fahrenheit_100">>
  /\ arg = 11555
  /\ itemp = 65535
  /\ res = 11555

\* C9: decoding preserves order. The float Fahrenheit decode of a smaller
\* encoded value is strictly smaller, and no integer decode of a smaller
\* encoded value is larger. Each encoded value is compared with the next
\* MonoSpan values; the order between any two follows by transitivity.
MonoSpan == 16

Above(e) == { b \in (e + 1)..(e + MonoSpan) : b <= UINT16_MAX }

C9_OrderPreserving ==
  /\ LastCall = "itemp_to_fahrenheit" =>
       \A b \in Above(itemp) : RatLess(fres, itemp_to_fahrenheit(b))
  /\ LastCall = "itemp_to_fahrenheit_100" =>
       \A b \in Above(itemp) : res <= itemp_to_fahrenheit_100(b)
  /\ LastCall = "itemp_to_fahrenheit_10" =>
       \A b \in Above(itemp) : res <= itemp_to_fahrenheit_10(b)
  /\ LastCall = "itemp_to_fahrenheit_1" =>
       \A b \in Above(itemp) : res <= itemp_to_fahrenheit_1(b)
  /\ LastCall = "itemp_to_celsius_100" =>
       \A b \in Above(itemp) : res <= itemp_to_celsius_100(b)
  /\ LastCall = "itemp_to_celsius_10" =>
       \A b \in Above(itemp) : res <= itemp_to_celsius_10(b)
  /\ LastCall = "itemp_to_celsius_1" =>
       \A b \in Above(itemp) : res <= itemp_to_celsius_1(b)

\* the whole-degree decode steps from -16 to -15 between 12 and 13
C9_Witness ==
  /\ LastCall = "itemp_to_fahrenheit_1"
  /\ itemp = 12
  /\ res = -16
  /\ itemp_to_fahrenheit_1(13) = -15

\* C10: a signed 16-bit hundredths value encodes without wraparound (the
\* encoder returns (v + offset) * slope itself, a value in 0..65535)
\* exactly when it is inside the documented range: [-1552, 11555] for
\* Fahrenheit, [-2640, 4641] for Celsius.
C10_RangeIsExact ==
  /\ LastCall = "fahrenheit_100_to_itemp" =>
       /\ ((arg + 1552) * 5 \in 0..65535) <=> (arg \in -1552..11555)
       /\ (itemp = (arg + 1552) * 5) <=> (arg \in -1552..11555)
  /\ LastCall = "celsius_100_to_itemp" =>
       /\ ((arg + 2640) * 9 \in 0..65535) <=> (arg \in -2640..4641)
       /\ (itemp = (arg + 2640) * 9) <=> (arg \in -2640..4641)

\* 4642 is the first Celsius input to wrap: 65538 becomes 2
C10_Witness ==
  /\ LastCall = "celsius_100_to_itemp"
  /\ arg = 4642
  /\ itemp = 2

----------------------------------------------------------------------------
(* SpecReencode: the slot holds any 16-bit value; the caller decodes it to *)
(* hundredths, encodes that reading back into the slot and decodes again   *)

\* itemp = fahrenheit_100_to_itemp(itemp_to_fahrenheit_100(itemp))
Reencode_fahrenheit_100 ==
  /\ calls = <<"load", "itemp_to_fahrenheit_100">>
  /\ itemp' = fahrenheit_100_to_itemp(res)
  /\ nominal' = res
  /\ calls' = Append(calls, "fahrenheit_100_to_itemp")
  /\ UNCHANGED <<arg, arg2, res, fres, unit, inRange, pc, f100, c100>>

\* itemp = celsius_100_to_itemp(itemp_to_celsius_100(itemp))
Reencode_celsius_100 ==
  /\ calls = <<"load", "itemp_to_celsius_100">>
  /\ itemp' = celsius_100_to_itemp(res)
  /\ nominal' = res
  /\ calls' = Append(calls, "celsius_100_to_itemp")
  /\ UNCHANGED <<arg, arg2, res, fres, unit, inRange, pc, f100, c100>>

Redecode_fahrenheit_100 ==
  /\ Len(calls) = 3
  /\ res' = itemp_to_fahrenheit_100(itemp)
  /\ calls' = Append(calls, "itemp_to_fahrenheit_100")
  /\ UNCHANGED <<arg, arg2, itemp, fres, unit, nominal, inRange, pc, f100, c100>>

Redecode_celsius_100 ==
  /\ Len(calls) = 3
  /\ res' = itemp_to_celsius_100(itemp)
  /\ calls' = Append(calls, "itemp_to_celsius_100")
  /\ UNCHANGED <<arg, arg2, itemp, fres, unit, nominal, inRange, pc, f100, c100>>

NextReencode ==
  \/ Call_itemp_to_fahrenheit_100
  \/ Call_itemp_to_celsius_100
  \/ Reencode_fahrenheit_100
  \/ Reencode_celsius_100
  \/ Redecode_fahrenheit_100
  \/ Redecode_celsius_100

SpecReencode == InitDecode /\ [][NextReencode]_vars

----------------------------------------------------------------------------
(* Properties, continued                                                   *)

\* n/d rounded to the nearest integer, a half away from zero; d > 0
RoundHalfAway(n, d) ==
  LET q == (2 * Abs(n) + d) \div (2 * d)
  IN  IF n < 0 THEN -q ELSE q

\* C11: for every signed 16-bit input, also outside the documented range,
\* the hundredths encoders return (v + offset) * slope reduced modulo
\* 65536, a value in 0..65535.
C11_TotalWithWraparound ==
  /\ LastCall = "fahrenheit_100_to_itemp" =>
       (itemp = ((arg + 1552) * 5) % 65536 /\ itemp \in 0..65535)
  /\ LastCall = "celsius_100_to_itemp" =>
       (itemp = ((arg + 2640) * 9) % 65536 /\ itemp \in 0..65535)

\* (32767 + 2640) * 9 = 318663 = 4 * 65536 + 56519
C11_Witness ==
  /\ LastCall = "celsius_100_to_itemp"
  /\ arg = 32767
  /\ itemp = 56519

\* C12: on whole degrees inside the documented range (-15..115 F,
\* -26..46 C) the three encoders of a unit give the same encoded value
\* from d, 10 d and 100 d, and the three decoders of that unit give back
\* d, 10 d and 100 d.
WholeF == -15..115
WholeC == -26..46

\* the whole degrees an encoder's argument stands for, if any
DegreesOf(enc, v) ==
  CASE enc \in {"fahrenheit_1_to_itemp", "celsius_1_to_itemp"} -> {v}
    [] enc \in {"fahrenheit_10_to_itemp", "celsius_10_to_itemp"} ->
         IF v % 10 = 0 THEN {CDiv(v, 10)} ELSE {}
    [] enc \in {"fahrenheit_100_to_itemp", "celsius_100_to_itemp"} ->
         IF v % 100 = 0 THEN {CDiv(v, 100)} ELSE {}
    [] OTHER -> {}

C12_GranularitiesAgree ==
  Len(calls) >= 1 =>
    LET enc == calls[1]
        isF == enc \in {"fahrenheit_1_to_itemp", "fahrenheit_10_to_itemp",
                        "fahrenheit_100_to_itemp"}
    IN  \A d \in DegreesOf(enc, arg) :
          /\ (isF /\ d \in WholeF) =>
               /\ itemp = (100 * d + 1552) * 5
               /\ LastCall = "itemp_to_fahrenheit_1" => res = d
               /\ LastCall = "itemp_to_fahrenheit_10" => res = 10 * d
               /\ LastCall = "itemp_to_fahrenheit_100" => res = 100 * d
          /\ (~isF /\ d \in WholeC) =>
               /\ itemp = (100 * d + 2640) * 9
               /\ LastCall = "itemp_to_celsius_1" => res = d
               /\ LastCall = "itemp_to_celsius_10" => res = 10 * d
               /\ LastCall = "itemp_to_celsius_100" => res = 100 * d

C12_Witness ==
  /\ calls = <<"celsius_1_to_itemp", "itemp_to_celsius_10">>
  /\ arg = 46
  /\ itemp = 65160
  /\ res = 460

C14_NeverMax == LastCall = "celsius_100_to_itemp" => itemp # 65535

\* C14 amended: celsius_100_to_itemp(4641) is 65529, no input of the
\* documented range -2640..4641 gives 65535, and the only signed 16-bit
\* input that gives 65535 is 26487, by wraparound.
C14_MaxOnlyByWraparound ==
  LastCall = "celsius_100_to_itemp" =>
    /\ arg = 4641 => itemp = 65529
    /\ arg \in -2640..4641 => itemp # 65535
    /\ itemp = 65535 <=> arg = 26487

\* (26487 + 2640) * 9 = 262143 = 4 * 65536 - 1
C14_Witness ==
  /\ LastCall = "celsius_100_to_itemp"
  /\ arg = 26487
  /\ itemp = 65535

\* C15 as stated: for every encoded value and either unit, the hundredths
\* reading encoded back lands within slope/2 of the encoded value and
\* decodes to the same reading.
C15_Idempotent ==
  /\ Len(calls) >= 3 /\ calls[3] = "fahrenheit_100_to_itemp" =>
       /\ Abs(itemp - arg) <= 2
       /\ LastCall = "itemp_to_fahrenheit_100" => res = nominal
  /\ Len(calls) >= 3 /\ calls[3] = "celsius_100_to_itemp" =>
       /\ Abs(itemp - arg) <= 4
       /\ LastCall = "itemp_to_celsius_100" => res = nominal

\* C15 amended: the same for Fahrenheit on every encoded value, and for
\* Celsius on the encoded values 0..65533; 65534 and 65535 read 4642
\* hundredths C, which encodes back with wraparound to 2 and reads -2640.
C15_IdempotentBelowCelsiusTop ==
  /\ Len(calls) >= 3 /\ calls[3] = "fahrenheit_100_to_itemp" =>
       /\ Abs(itemp - arg) <= 2
       /\ LastCall = "itemp_to_fahrenheit_100" => res = nominal
  /\ Len(calls) >= 3 /\ calls[3] = "celsius_100_to_itemp" =>
       IF arg <= 65533
         THEN /\ Abs(itemp - arg) <= 4
              /\ LastCall = "itemp_to_celsius_100" => res = nominal
         ELSE /\ nominal = 4642
              /\ itemp = 2
              /\ LastCall = "itemp_to_celsius_100" => res = -2640

C15_Witness ==
  /\ calls = <<"load", "itemp_to_celsius_100", "celsius_100_to_itemp",
               "itemp_to_celsius_100">>
  /\ arg = 65533
  /\ nominal = 4641
  /\ itemp = 65529
  /\ res = 4641

\* C16: for every signed 16-bit d the whole-degree and tenth-degree
\* encoders return ((100 d + offset) * slope) mod 65536 and
\* ((10 d + offset) * slope) mod 65536, also when 100 d or 10 d does not
\* fit a signed 16-bit integer and is wrapped on the way.
C16_TruncationHarmless ==
  /\ LastCall = "fahrenheit_1_to_itemp" =>
       itemp = ((100 * arg + 1552) * 5) % 65536
  /\ LastCall = "fahrenheit_10_to_itemp" =>
       itemp = ((10 * arg + 1552) * 5) % 65536
  /\ LastCall = "celsius_1_to_itemp" =>
       itemp = ((100 * arg + 2640) * 9) % 65536
  /\ LastCall = "celsius_10_to_itemp" =>
       itemp = ((10 * arg + 2640) * 9) % 65536

\* 100 * 328 = 32800 does not fit: it is passed on as -32736
C16_Witness ==
  /\ LastCall = "fahrenheit_1_to_itemp"
  /\ arg = 328
  /\ ToInt16(arg * 100) = -32736
  /\ itemp = 40688

\* C17: for every encoded value, F and C hundredths readings satisfy
\* |5 F - 9 C - 16000| <= 6, with 5 F - 9 C = 16000 when the encoded value
\* is a multiple of 45.
Consistent(e, f, c) ==
  /\ Abs(5 * f - 9 * c - 16000) <= 6
  /\ e % 45 = 0 => 5 * f - 9 * c = 16000

C17_UnitsConsistent ==
  /\ LastCall = "itemp_to_fahrenheit_100" =>
       Consistent(itemp, res, itemp_to_celsius_100(itemp))
  /\ LastCall = "itemp_to_celsius_100" =>
       Consistent(itemp, itemp_to_fahrenheit_100(itemp), res)

\* itemp 13 reads -1549 F and -2639 C: 5 F - 9 C = 16006
C17_Witness ==
  /\ LastCall = "itemp_to_fahrenheit_100"
  /\ itemp = 13
  /\ res = -1549
  /\ itemp_to_celsius_100(itemp) = -2639

====
